---- MODULE Spec2Model ----
(***************************************************************************)
(* ServersViewTreeDataProvider (src/src/serverExplorer.ts), in its two     *)
(* variants: the handle-tracking provider (lines 21-165), which keeps a    *)
(* map of ServerHandles next to the map of ServerStates, and the           *)
(* state-only provider (lines 186-334), which keeps ServerStates only.     *)
(* Every method of the provider runs to completion on the single event     *)
(* loop thread, so each call is one step of the model.                     *)
(***************************************************************************)
EXTENDS Integers, Sequences, FiniteSets, TLC

VARIABLES
    variant,               \* "handle" (lines 21-165) or "state" (lines 186-334)
    servers,               \* this.servers: Map<string, ServerHandle>
    serverStatus,          \* this.serverStatus: Map<string, ServerState>
    serverOutputChannels,  \* this.serverOutputChannels: Map<string, OutputChannel>
    outputChannels,        \* the host's OutputChannel objects, by the id they were created for
    handlesRequest,        \* the constructor's pending client.getServerHandles()
    lastOp,                \* the last call: its input, notifications, channel calls, error
    received,              \* history: per id, the last state update applied since its removal
    sinceClear,            \* history: per id, the output text received since creation/clear
    everRegistered,        \* history: the ids the Registry has ever held
    render,                \* the host's last tree query since the last call, and its result
    addLoc                 \* the run of addLocation(): its stage, inputs, calls and outcome

vars == <<variant, servers, serverStatus, serverOutputChannels, outputChannels,
          handlesRequest, lastOp, received, sinceClear, everRegistered, render, addLoc>>

----------------------------------------------------------------------------
(* Bounds of the model *)

\* characters of output the host's channels hold in all
MaxText == 2

\* OutputChannel objects the host creates in all
MaxChannels == 2

Ids == {"s1", "s2"}

Texts == {"a", "b"}

----------------------------------------------------------------------------
(* Values *)

\* JavaScript's undefined: Map.get of a missing key, refresh() without data
Undefined == [undefined |-> TRUE]

UNKNOWN == 0
STARTING == 1
STARTED == 2
STOPPING == 3
STOPPED == 4

RunStates == {UNKNOWN, STARTING, STARTED, STOPPING, STOPPED}

visibleName(id) == IF id = "s1" THEN "Tomcat" ELSE "WildFly"

\* Protocol.ServerHandle
ServerHandle(id) == [id |-> id, type |-> [visibleName |-> visibleName(id)]]

Handles == {ServerHandle(id) : id \in Ids}

\* Protocol.DeployableState
DeployableState(ref, st) == [reference |-> ref, state |-> st]

\* Protocol.ServerState, the payload of a state update
ServerStateEvent(id, st, deps) ==
    [server |-> ServerHandle(id), state |-> st, deployableStates |-> deps]

\* the state updates the control service sends for id
EventsOf(id) ==
    { ServerStateEvent(id, STARTING, <<>>),
      ServerStateEvent(id, STARTED,
                       <<DeployableState("a.war", 1), DeployableState("b.war", 6)>>) }

Events == UNION {EventsOf(id) : id \in Ids}

\* the lists client.getServerHandles() may resolve to
HandleLists ==
    { <<>>, <<ServerHandle("s1")>>, <<ServerHandle("s1"), ServerHandle("s2")>> }

\* every OutputChannel object the host has created, as one sequence
RECURSIVE AllChannels(_, _)
AllChannels(chs, S) ==
    IF S = {} THEN <<>>
    ELSE LET x == CHOOSE y \in S : TRUE IN chs[x] \o AllChannels(chs, S \ {x})

RECURSIVE TotalText(_)
TotalText(cs) == IF cs = <<>> THEN 0 ELSE Len(Head(cs).text) + TotalText(Tail(cs))

----------------------------------------------------------------------------
(* JavaScript Map: entries in insertion order *)

MapHas(m, k) == \E i \in 1..Len(m) : m[i].key = k

MapGet(m, k) ==
    IF MapHas(m, k)
    THEN m[CHOOSE i \in 1..Len(m) : m[i].key = k].value
    ELSE Undefined

MapSet(m, k, v) ==
    IF MapHas(m, k)
    THEN [i \in 1..Len(m) |-> IF m[i].key = k THEN [key |-> k, value |-> v] ELSE m[i]]
    ELSE Append(m, [key |-> k, value |-> v])

MapDelete(m, k) == SelectSeq(m, LAMBDA e : e.key # k)

MapValues(m) == [i \in 1..Len(m) |-> m[i].value]

MapKeys(m) == {m[i].key : i \in 1..Len(m)}

----------------------------------------------------------------------------
(* The provider's fields and the host's channels at the start of a call,   *)
(* with the call's notifications, channel calls and error still empty.     *)

This ==
    [servers |-> servers,
     serverStatus |-> serverStatus,
     serverOutputChannels |-> serverOutputChannels,
     channels |-> outputChannels,
     fired |-> <<>>,
     calls |-> <<>>,
     error |-> "none"]

\* this._onDidChangeTreeData.fire(data): listeners run synchronously and see
\* the maps as they are at this point of the call
refresh(t, data) ==
    [t EXCEPT !.fired = Append(@, [data |-> data,
                                    servers |-> t.servers,
                                    serverStatus |-> t.serverStatus])]

\* a method call on an OutputChannel object, as the host sees it
ChannelCall(t, ref, method) ==
    [ref |-> ref, method |-> method,
     disposed |-> t.channels[ref.id][ref.n].disposed,
     nonEmpty |-> t.channels[ref.id][ref.n].text # ""]

createOutputChannel(t, id) ==
    [t EXCEPT !.channels[id] =
        Append(@, [name |-> "Server: " \o id, text |-> "", disposed |-> FALSE])]

NewChannelRef(t, id) == [id |-> id, n |-> Len(t.channels[id]) + 1]

channelAppend(t, ref, text) ==
    [t EXCEPT !.channels[ref.id][ref.n].text = @ \o text,
              !.calls = Append(@, ChannelCall(t, ref, "append"))]

channelClear(t, ref) ==
    [t EXCEPT !.channels[ref.id][ref.n].text = "",
              !.calls = Append(@, ChannelCall(t, ref, "clear"))]

channelShow(t, ref) ==
    [t EXCEPT !.calls = Append(@, ChannelCall(t, ref, "show"))]

channelDispose(t, ref) ==
    [t EXCEPT !.channels[ref.id][ref.n].disposed = TRUE,
              !.calls = Append(@, ChannelCall(t, ref, "dispose"))]

\* no tree query has been made since the last call
NoQuery == [op |-> "none"]

\* addLocation() has not been called
NotStarted == [pc |-> "idle"]

\* an uncaught TypeError ends the call where it is raised
Throw(t, err) == [t EXCEPT !.error = err]

----------------------------------------------------------------------------
(* Handle-tracking variant, lines 50-94 *)

\* H_insertServer that only notifies, as the state-only variant does
H_insertServer_refreshOnly(t, handle) == refresh(t, Undefined)

\* H_insertServer that adds an entry without looking for the key
H_insertServer_append(t, handle) ==
    refresh([t EXCEPT !.servers = Append(@, [key |-> handle.id, value |-> handle])],
            Undefined)

H_insertServer(t, handle) ==
    LET t1 == [t EXCEPT !.servers = MapSet(@, handle.id, handle)]
    IN  refresh(t1, Undefined)

\* an updateServer that notifies before it writes
H_updateServer_fireFirst(t, event) ==
    LET value == MapGet(t.servers, event.server.id)
    IN  IF value = Undefined
        THEN Throw(t, "TypeError")
        ELSE
          LET t1 == refresh(t, value)
              t2 == [t1 EXCEPT !.serverStatus = MapSet(@, value.id, event)]
              channel == MapGet(t2.serverOutputChannels, value.id)
          IN  IF event.state = STARTING /\ channel # Undefined
              THEN channelClear(t2, channel)
              ELSE t2

\* an updateServer that stores the state of an id without a handle, under
\* the id of the event
H_updateServer_storeUnregistered(t, event) ==
    LET value == MapGet(t.servers, event.server.id)
        t1 == [t EXCEPT !.serverStatus = MapSet(@, event.server.id, event)]
        t2 == refresh(t1, value)
        channel == MapGet(t2.serverOutputChannels, event.server.id)
    IN  IF event.state = STARTING /\ channel # Undefined
        THEN channelClear(t2, channel)
        ELSE t2

H_updateServer(t, event) ==
    LET value == MapGet(t.servers, event.server.id)
    IN  IF value = Undefined
        THEN Throw(t, "TypeError")      \* value.id of undefined, line 57
        ELSE
          LET t1 == [t EXCEPT !.serverStatus = MapSet(@, value.id, event)]
              t2 == refresh(t1, value)
              channel == MapGet(t2.serverOutputChannels, value.id)
          IN  IF event.state = STARTING /\ channel # Undefined
              THEN channelClear(t2, channel)
              ELSE t2

\* a removeServer that disposes the channel and leaves it in the map
H_removeServer_keepEntry(t, handle) ==
    LET t1 == [t EXCEPT !.servers = MapDelete(@, handle.id)]
        t2 == [t1 EXCEPT !.serverStatus = MapDelete(@, handle.id)]
        t3 == refresh(t2, Undefined)
        channel == MapGet(t3.serverOutputChannels, handle.id)
    IN  IF channel # Undefined
        THEN channelDispose(channelClear(t3, channel), channel)
        ELSE t3

\* a removeServer that forgets the state map
H_removeServer_keepStatus(t, handle) ==
    LET t1 == [t EXCEPT !.servers = MapDelete(@, handle.id)]
        t3 == refresh(t1, Undefined)
        channel == MapGet(t3.serverOutputChannels, handle.id)
        t4 == [t3 EXCEPT !.serverOutputChannels = MapDelete(@, handle.id)]
    IN  IF channel # Undefined
        THEN channelDispose(channelClear(t4, channel), channel)
        ELSE t4

H_removeServer(t, handle) ==
    LET t1 == [t EXCEPT !.servers = MapDelete(@, handle.id)]
        t2 == [t1 EXCEPT !.serverStatus = MapDelete(@, handle.id)]
        t3 == refresh(t2, Undefined)
        channel == MapGet(t3.serverOutputChannels, handle.id)
        t4 == [t3 EXCEPT !.serverOutputChannels = MapDelete(@, handle.id)]
    IN  IF channel # Undefined
        THEN channelDispose(channelClear(t4, channel), channel)
        ELSE t4

H_addServerOutput(t, output, showChannelOnServerOutput) ==
    LET found == MapGet(t.serverOutputChannels, output.server.id)
        channel == IF found = Undefined THEN NewChannelRef(t, output.server.id) ELSE found
        t1 == IF found = Undefined
              THEN [createOutputChannel(t, output.server.id) EXCEPT
                      !.serverOutputChannels = MapSet(@, output.server.id, channel)]
              ELSE t
        t2 == channelAppend(t1, channel, output.text)
    IN  IF showChannelOnServerOutput THEN channelShow(t2, channel) ELSE t2

H_showOutput(t, server) ==
    LET channel == MapGet(t.serverOutputChannels, server.id)
    IN  IF channel # Undefined THEN channelShow(t, channel) ELSE t

----------------------------------------------------------------------------
(* State-only variant, lines 214-255 *)

S_insertServer(t, handle) == refresh(t, Undefined)

\* an updateServer that clears the channel whatever the run-state
S_updateServer_clearAlways(t, event) ==
    LET t1 == [t EXCEPT !.serverStatus = MapSet(@, event.server.id, event)]
        t2 == refresh(t1, event)
        channel == MapGet(t2.serverOutputChannels, event.server.id)
    IN  IF channel # Undefined
        THEN channelClear(t2, channel)
        ELSE t2

\* an updateServer that merges: an entry already stored keeps its deployables
S_updateServer_merge(t, event) ==
    LET old == MapGet(t.serverStatus, event.server.id)
        merged == IF old = Undefined THEN event
                  ELSE [event EXCEPT !.deployableStates = old.deployableStates]
        t1 == [t EXCEPT !.serverStatus = MapSet(@, event.server.id, merged)]
        t2 == refresh(t1, event)
        channel == MapGet(t2.serverOutputChannels, event.server.id)
    IN  IF event.state = STARTING /\ channel # Undefined
        THEN channelClear(t2, channel)
        ELSE t2

S_updateServer(t, event) ==
    LET t1 == [t EXCEPT !.serverStatus = MapSet(@, event.server.id, event)]
        t2 == refresh(t1, event)
        channel == MapGet(t2.serverOutputChannels, event.server.id)
    IN  IF event.state = STARTING /\ channel # Undefined
        THEN channelClear(t2, channel)
        ELSE t2

\* a removeServer that leaves the output channel alone
S_removeServer_keepChannel(t, handle) ==
    LET t1 == [t EXCEPT !.serverStatus = MapDelete(@, handle.id)]
    IN  refresh(t1, Undefined)

S_removeServer(t, handle) ==
    LET t1 == [t EXCEPT !.serverStatus = MapDelete(@, handle.id)]
        t2 == refresh(t1, Undefined)
        channel == MapGet(t2.serverOutputChannels, handle.id)
        t3 == [t2 EXCEPT !.serverOutputChannels = MapDelete(@, handle.id)]
    IN  IF channel # Undefined
        THEN channelDispose(channelClear(t3, channel), channel)
        ELSE t3

\* an addServerOutput that replaces the text of the channel
S_addServerOutput_overwrite(t, output, showChannelOnServerOutput) ==
    LET found == MapGet(t.serverOutputChannels, output.server.id)
        channel == IF found = Undefined THEN NewChannelRef(t, output.server.id) ELSE found
        t1 == IF found = Undefined
              THEN [createOutputChannel(t, output.server.id) EXCEPT
                      !.serverOutputChannels = MapSet(@, output.server.id, channel)]
              ELSE t
        t2 == [t1 EXCEPT !.channels[channel.id][channel.n].text = output.text,
                         !.calls = Append(@, ChannelCall(t1, channel, "append"))]
    IN  IF showChannelOnServerOutput THEN channelShow(t2, channel) ELSE t2

\* an addServerOutput that drops the output of a server with no stored state
S_addServerOutput_onlyRegistered(t, output, showChannelOnServerOutput) ==
    LET found == MapGet(t.serverOutputChannels, output.server.id)
        channel == IF found = Undefined THEN NewChannelRef(t, output.server.id) ELSE found
        t1 == IF found = Undefined
              THEN [createOutputChannel(t, output.server.id) EXCEPT
                      !.serverOutputChannels = MapSet(@, output.server.id, channel)]
              ELSE t
        t2 == channelAppend(t1, channel, output.text)
    IN  IF ~MapHas(t.serverStatus, output.server.id) THEN t
        ELSE IF showChannelOnServerOutput THEN channelShow(t2, channel) ELSE t2

S_addServerOutput(t, output, showChannelOnServerOutput) ==
    LET found == MapGet(t.serverOutputChannels, output.server.id)
        channel == IF found = Undefined THEN NewChannelRef(t, output.server.id) ELSE found
        t1 == IF found = Undefined
              THEN [createOutputChannel(t, output.server.id) EXCEPT
                      !.serverOutputChannels = MapSet(@, output.server.id, channel)]
              ELSE t
        t2 == channelAppend(t1, channel, output.text)
    IN  IF showChannelOnServerOutput THEN channelShow(t2, channel) ELSE t2

S_showOutput(t, server) ==
    LET channel == MapGet(t.serverOutputChannels, server.id)
    IN  IF channel # Undefined THEN channelShow(t, channel) ELSE t

----------------------------------------------------------------------------
(* Tree queries *)

\* getChildren(undefined), lines 160-164 and 326-329
getRoots(sv, st) == IF variant = "handle" THEN MapValues(sv) ELSE MapValues(st)

\* the identifier a top-level node stands for
nodeId(node) == IF variant = "handle" THEN node.id ELSE node.server.id

RootIds(sv, st) == {nodeId(getRoots(sv, st)[i]) : i \in 1..Len(getRoots(sv, st))}

\* this.runStateEnum, filled by the constructor
runStateEnum ==
    << [key |-> UNKNOWN, value |-> "Unknown"],
       [key |-> STARTING, value |-> "Starting"],
       [key |-> STARTED, value |-> "Started"],
       [key |-> STOPPING, value |-> "Stopping"],
       [key |-> STOPPED, value |-> "Stopped"] >>

\* the object has the property, i.e. reading it does not give undefined
Has(obj, field) == field \in DOMAIN obj

\* `${m.get(k)}` in a template literal: a missing key prints as "undefined"
TemplateGet(m, k) == IF MapHas(m, k) THEN MapGet(m, k) ELSE "undefined"

\* new TreeItem(label) followed by treeItem.contextValue = m.get(k); a
\* contextValue of undefined is a TreeItem without the property
TreeItem(label, m, k) ==
    IF MapHas(m, k) THEN [label |-> label, contextValue |-> MapGet(m, k)]
                    ELSE [label |-> label]

\* what a tree query returns: a value, or undefined when it falls off its end
Return(v) == [returned |-> TRUE, value |-> v]
ReturnsUndefined == [returned |-> FALSE]

\* the label of a server node, from the state stored for id1 now
ServerTreeItem(t, id1, type) ==
    LET status == MapGet(t.serverStatus, id1)
        runState == IF status = Undefined THEN 0 ELSE status.state
    IN  TreeItem(id1 \o ":" \o type.visibleName \o "("
                     \o TemplateGet(runStateEnum, runState) \o ")",
                 runStateEnum, runState)

H_getTreeItem(t, item) ==
    IF Has(item, "deployableStates") THEN ReturnsUndefined
    ELSE IF Has(item, "id") /\ item.id # ""
         THEN Return(ServerTreeItem(t, item.id, item.type))
         ELSE ReturnsUndefined

\* S_getTreeItem reading the run state of the node it was handed
S_getTreeItem_ofNode(t, item) ==
    IF Has(item, "deployableStates")
    THEN Return(TreeItem(item.server.id \o ":" \o item.server.type.visibleName \o "("
                             \o TemplateGet(runStateEnum, item.state) \o ")",
                         runStateEnum, item.state))
    ELSE ReturnsUndefined

S_getTreeItem(t, item) ==
    IF Has(item, "deployableStates")
    THEN Return(ServerTreeItem(t, item.server.id, item.server.type))
    ELSE IF Has(item, "reference") /\ item.reference # ""
         THEN Return(TreeItem("I am a deployment: " \o ToString(item.state),
                              runStateEnum, item.state))
         ELSE ReturnsUndefined

H_getChildren(t, element) ==
    IF element = Undefined THEN Return(MapValues(t.servers)) ELSE ReturnsUndefined

S_getChildren(t, element) ==
    IF element = Undefined THEN Return(MapValues(t.serverStatus))
    ELSE IF Has(element, "deployableStates") THEN Return(element.deployableStates)
         ELSE ReturnsUndefined

----------------------------------------------------------------------------
(* The calls the extension makes on the provider *)

insertServer(t, handle) ==
    IF variant = "handle" THEN H_insertServer(t, handle) ELSE S_insertServer(t, handle)

updateServer(t, event) ==
    IF variant = "handle" THEN H_updateServer(t, event) ELSE S_updateServer(t, event)

removeServer(t, handle) ==
    IF variant = "handle" THEN H_removeServer(t, handle) ELSE S_removeServer(t, handle)

addServerOutput(t, output, show) ==
    IF variant = "handle" THEN H_addServerOutput(t, output, show)
                          ELSE S_addServerOutput(t, output, show)

showOutput(t, server) ==
    IF variant = "handle" THEN H_showOutput(t, server) ELSE S_showOutput(t, server)

getTreeItem(t, item) ==
    IF variant = "handle" THEN H_getTreeItem(t, item) ELSE S_getTreeItem(t, item)

getChildren(t, element) ==
    IF variant = "handle" THEN H_getChildren(t, element) ELSE S_getChildren(t, element)

----------------------------------------------------------------------------
(* addLocation(): the promise chain, one operator per callback *)

\* a value where undefined is possible too (a dialog's result, a callback's
\* argument)
Val(v) == [value |-> v]

\* ServerBeans findServerBeans may detect in a folder
KnownBean == [location |-> "/opt/tomcat", typeCategory |-> "TOMCAT"]
UnknownBean == [location |-> "/opt/x", typeCategory |-> "UNKNOWN"]
NoCategoryBean == [location |-> "/opt/y"]

\* the characters String.prototype.trim strips
Whitespace == {" ", "\t"}

\* value.trim(), on a string given as its sequence of characters
RECURSIVE trimStart(_)
trimStart(cs) ==
    IF cs # <<>> /\ Head(cs) \in Whitespace THEN trimStart(Tail(cs)) ELSE cs

RECURSIVE trimEnd(_)
trimEnd(cs) ==
    IF cs # <<>> /\ cs[Len(cs)] \in Whitespace THEN trimEnd(SubSeq(cs, 1, Len(cs) - 1)) ELSE cs

trim(cs) == trimEnd(trimStart(cs))

\* the string the characters spell, as the maps' keys are
RECURSIVE Str(_)
Str(cs) == IF cs = <<>> THEN "" ELSE Head(cs) \o Str(Tail(cs))

\* validateInput's results
Null == [null |-> TRUE]
Message(text) == [message |-> text]

\* S_validateInput without the look-up of the name in the Registry
S_validateInput_emptyOnly(t, value) ==
    IF value = <<>> \/ Len(trim(value)) = 0
    THEN Message("Cannot set empty server name")
    ELSE Null

H_validateInput(t, value) ==
    IF value = <<>> \/ Len(trim(value)) = 0
    THEN Message("Cannot set empty server name")
    ELSE IF MapGet(t.servers, Str(value)) # Undefined
         THEN Message("Cannot set duplicate server name")
         ELSE Null

S_validateInput(t, value) ==
    IF value = <<>> \/ Len(trim(value)) = 0
    THEN Message("Cannot set empty server name")
    ELSE IF MapGet(t.serverStatus, Str(value)) # Undefined
         THEN Message("Cannot set duplicate server name")
         ELSE Null

validateInput(t, value) ==
    IF variant = "handle" THEN H_validateInput(t, value) ELSE S_validateInput(t, value)

\* the promise addLocation returns
Pending == [state |-> "pending"]
Fulfil(a, v) == [a EXCEPT !.pc = "done", !.outcome = [state |-> "fulfilled", value |-> v]]
Reject(a, reason) ==
    [a EXCEPT !.pc = "done", !.outcome = [state |-> "rejected", reason |-> reason]]

\* a request sent to the control service
Call(a, request) == [a EXCEPT !.calls = Append(@, request)]

\* ThenStatus that returns the status whatever its severity
ThenStatus_anySeverity(a, status) == Fulfil([a EXCEPT !.status = status], status)

\* lines 137-140 and 298-301, after the await
ThenStatus(a, status) ==
    LET b == [a EXCEPT !.status = status]
    IN  IF status.severity > 0 THEN Reject(b, status.message) ELSE Fulfil(b, status)

\* ThenData that asks for a server whenever there is data
ThenData_withoutName(a, data) ==
    IF data # Undefined
    THEN [Call(a, [op |-> "createServerAsync", bean |-> data.bean,
                   name |-> IF data.name = Undefined THEN "" ELSE Str(data.name.value)])
             EXCEPT !.pc = "createServerAsync"]
    ELSE Fulfil(a, Undefined)

\* .then(async data => ...), lines 134-136 and 295-297, up to the await
ThenData(a, data) ==
    IF data # Undefined /\ data.name # Undefined /\ data.name.value # <<>>
    THEN [Call(a, [op |-> "createServerAsync", bean |-> data.bean,
                   name |-> Str(data.name.value)])
             EXCEPT !.pc = "createServerAsync"]
    ELSE Fulfil(a, Undefined)

\* the first bean names a server type
Detected(serverBeans) ==
    /\ serverBeans # Undefined
    /\ Len(serverBeans.value) > 0
    /\ Has(serverBeans.value[1], "typeCategory")
    /\ serverBeans.value[1].typeCategory # ""
    /\ serverBeans.value[1].typeCategory # "UNKNOWN"

\* ThenBeans that ends silently when the list of beans is empty
ThenBeans_silentOnEmpty(a, serverBeans) ==
    LET b == [a EXCEPT !.serverBeans = serverBeans]
    IN  IF Detected(serverBeans)
        THEN [b EXCEPT !.pc = "showInputBox", !.prompts = @ + 1]
        ELSE IF serverBeans # Undefined /\ Len(serverBeans.value) > 0
             THEN Reject(b, "Cannot detect server in selected location!")
             ELSE ThenData(b, Undefined)

\* .then(async serverBeans => ...), lines 110-133 and 271-294, up to the
\* name prompt; an array, empty or not, is truthy
ThenBeans(a, serverBeans) ==
    LET b == [a EXCEPT !.serverBeans = serverBeans]
    IN  IF Detected(serverBeans)
        THEN [b EXCEPT !.pc = "showInputBox", !.prompts = @ + 1]
        ELSE IF serverBeans # Undefined
             THEN Reject(b, "Cannot detect server in selected location!")
             ELSE ThenData(b, Undefined)

\* .then(value => ({name: value, bean: serverBeans[0]})), lines 126-128
ThenValue(a, value) ==
    ThenData([a EXCEPT !.value = value],
             [name |-> value, bean |-> a.serverBeans.value[1]])

\* .then(folders => ...), lines 106-110 and 267-271
ThenFolders(a, folders) ==
    LET b == [a EXCEPT !.folders = folders]
    IN  IF folders # Undefined /\ Len(folders.value) = 1
        THEN [Call(b, [op |-> "findServerBeans", path |-> folders.value[1].fsPath])
                 EXCEPT !.pc = "findServerBeans"]
        ELSE ThenBeans(b, Undefined)

\* servers.forEach(server => this.insertServer(server)), lines 47 and 211
RECURSIVE forEachInsertServer(_, _)
forEachInsertServer(t, hs) ==
    IF hs = <<>> THEN t
    ELSE forEachInsertServer(insertServer(t, Head(hs)), Tail(hs))

\* the identifier is known to the Registry: it has a handle (handle-tracking
\* variant) or a state (state-only variant)
Registered(id) ==
    IF variant = "handle" THEN MapHas(servers, id) ELSE MapHas(serverStatus, id)

\* the fields after a call that ended in state r, and the record of the call
Commit(r, op, id, arg, n) ==
    /\ servers' = r.servers
    /\ serverStatus' = r.serverStatus
    /\ serverOutputChannels' = r.serverOutputChannels
    /\ outputChannels' = r.channels
    /\ lastOp' = [op |-> op, id |-> id, arg |-> arg, calls |-> n,
                  registered |-> id \in Ids /\ Registered(id),
                  hadChannel |-> id \in Ids /\ MapHas(serverOutputChannels, id),
                  fired |-> r.fired, channelCalls |-> r.calls, error |-> r.error]
    /\ everRegistered' = everRegistered \cup
                            (IF variant = "handle" THEN MapKeys(r.servers)
                                                   ELSE MapKeys(r.serverStatus))
    /\ render' = NoQuery
    /\ UNCHANGED <<variant, addLoc>>

Init ==
    /\ variant \in {"handle", "state"}
    /\ servers = <<>>
    /\ serverStatus = <<>>
    /\ serverOutputChannels = <<>>
    /\ outputChannels = [id \in Ids |-> <<>>]
    /\ handlesRequest = "pending"
    /\ lastOp = [op |-> "constructor", id |-> "", arg |-> Undefined, calls |-> 0,
                 registered |-> FALSE, hadChannel |-> FALSE,
                 fired |-> <<>>, channelCalls |-> <<>>, error |-> "none"]
    /\ everRegistered = {}
    /\ received = [id \in Ids |-> Undefined]
    /\ sinceClear = [id \in Ids |-> ""]
    /\ render = NoQuery
    /\ addLoc = NotStarted

\* the control service answers the constructor's getServerHandles() with the
\* list it computed when it handled the request, and the .then callback
\* inserts every listed server
GetServerHandlesThen ==
    /\ handlesRequest = "pending"
    /\ handlesRequest' = "done"
    /\ \E hs \in HandleLists :
          Commit(forEachInsertServer(This, hs), "getServerHandles", "", hs, Len(hs))
    /\ UNCHANGED <<received, sinceClear>>

\* serverAdded
InsertServer ==
    \E handle \in Handles :
        /\ Commit(insertServer(This, handle), "insertServer", handle.id, Undefined, 1)
        /\ UNCHANGED <<handlesRequest, received, sinceClear>>

\* serverStateChanged
UpdateServerWith(event) ==
    LET id == event.server.id
        applied == variant = "state" \/ MapHas(servers, id)
    IN  /\ Commit(updateServer(This, event), "updateServer", id, event, 1)
        /\ received' = IF applied THEN [received EXCEPT ![id] = event] ELSE received
        /\ sinceClear' = IF applied /\ event.state = STARTING
                         THEN [sinceClear EXCEPT ![id] = ""]
                         ELSE sinceClear
        /\ UNCHANGED handlesRequest

UpdateServer == \E event \in Events : UpdateServerWith(event)

\* serverRemoved
RemoveServer ==
    \E handle \in Handles :
        /\ Commit(removeServer(This, handle), "removeServer", handle.id, Undefined, 1)
        /\ received' = [received EXCEPT ![handle.id] = Undefined]
        /\ sinceClear' = [sinceClear EXCEPT ![handle.id] = ""]
        /\ UNCHANGED handlesRequest

\* the host can hold the text and, when id has no channel, make one
CanOutput(id, text) ==
    /\ TotalText(AllChannels(outputChannels, Ids)) + Len(text) <= MaxText
    /\ MapHas(serverOutputChannels, id)
         \/ Len(AllChannels(outputChannels, Ids)) < MaxChannels

\* serverOutputAppended
AddServerOutput ==
    \E id \in Ids, text \in Texts, show \in BOOLEAN :
        /\ CanOutput(id, text)
        /\ Commit(addServerOutput(This, [server |-> ServerHandle(id), text |-> text], show),
                  "addServerOutput", id, text, 1)
        /\ sinceClear' = [sinceClear EXCEPT ![id] = @ \o text]
        /\ UNCHANGED <<handlesRequest, received>>

\* the "show output" command
ShowOutput ==
    \E server \in Handles :
        /\ Commit(showOutput(This, server), "showOutput", server.id, Undefined, 1)
        /\ UNCHANGED <<handlesRequest, received, sinceClear>>

Next ==
    \/ GetServerHandlesThen
    \/ InsertServer
    \/ UpdateServer
    \/ RemoveServer
    \/ AddServerOutput
    \/ ShowOutput

Spec == Init /\ [][Next]_vars

----------------------------------------------------------------------------
(* The tree view: the host queries the provider between the calls above.   *)
(* The state updates carry every run state and every publish state.        *)

\* the deployables of a state update: none, or two with publish states
\* that cover 1..6
DeployableLists ==
    { <<>>,
      <<DeployableState("a.war", 1), DeployableState("b.war", 6)>>,
      <<DeployableState("a.war", 2), DeployableState("b.war", 5)>>,
      <<DeployableState("a.war", 3), DeployableState("b.war", 4)>> }

TreeEvents ==
    {ServerStateEvent("s1", st, deps) : st \in RunStates, deps \in DeployableLists}
        \cup EventsOf("s2")

Deployables == UNION {{deps[i] : i \in 1..Len(deps)} : deps \in DeployableLists}

\* the nodes the host can hold: what getChildren has returned or may return,
\* snapshots of an earlier Registry included
TreeNodes == IF variant = "handle" THEN Handles ELSE TreeEvents \cup Deployables

TreeUpdateServer == \E event \in TreeEvents : UpdateServerWith(event)

Query(op, node, result) ==
    /\ render' = [op |-> op, node |-> node, result |-> result]
    /\ UNCHANGED <<variant, servers, serverStatus, serverOutputChannels, outputChannels,
                   handlesRequest, lastOp, received, sinceClear, everRegistered, addLoc>>

GetTreeItem == \E item \in TreeNodes : Query("getTreeItem", item, getTreeItem(This, item))

GetChildren ==
    \E element \in TreeNodes \cup {Undefined} :
        Query("getChildren", element, getChildren(This, element))

TreeNext ==
    \/ InsertServer
    \/ TreeUpdateServer
    \/ RemoveServer
    \/ GetTreeItem
    \/ GetChildren

TreeSpec == Init /\ [][TreeNext]_vars

----------------------------------------------------------------------------
(* The "add server location" command: one run of addLocation(), with the   *)
(* control service's events arriving while its dialogs and requests are    *)
(* pending.                                                                *)

\* a stage of the run has not produced its value yet
NotYet == [notYet |-> TRUE]

Uri(p) == [fsPath |-> p]

\* what showOpenDialog resolves to: undefined when cancelled, else the folders
FolderChoices == {Undefined, Val(<<>>), Val(<<Uri("/opt/tomcat")>>)}

\* what findServerBeans resolves to
BeanLists ==
    { <<>>, <<KnownBean>>, <<UnknownBean>>, <<NoCategoryBean>>,
      <<KnownBean, UnknownBean>>, <<UnknownBean, KnownBean>> }

\* what the user may type into the name prompt, as sequences of characters
Names ==
    { <<>>, <<" ">>, <<" ", "\t">>,
      <<"s", "1">>, <<"s", "2">>, <<"s", "3">>, <<"s", "1", " ">> }

\* what createServerAsync resolves to
Statuses ==
    { [severity |-> 0, message |-> "ok"],
      [severity |-> 2, message |-> "created with warnings"],
      [severity |-> 4, message |-> "server name in use"] }

\* a step of the run: the provider's fields are not touched
AddLocationStep(a) ==
    /\ addLoc' = a
    /\ UNCHANGED <<variant, servers, serverStatus, serverOutputChannels, outputChannels,
                   handlesRequest, lastOp, received, sinceClear, everRegistered, render>>

\* addLocation() is called and opens the folder dialog
AddLocation ==
    /\ addLoc.pc = "idle"
    /\ AddLocationStep([pc |-> "showOpenDialog", folders |-> NotYet, serverBeans |-> NotYet,
                         value |-> NotYet, accepted |-> NotYet, status |-> NotYet,
                         calls |-> <<>>, prompts |-> 0, outcome |-> Pending])

ShowOpenDialogThen ==
    /\ addLoc.pc = "showOpenDialog"
    /\ \E folders \in FolderChoices : AddLocationStep(ThenFolders(addLoc, folders))

FindServerBeansThen ==
    /\ addLoc.pc = "findServerBeans"
    /\ \E beans \in BeanLists : AddLocationStep(ThenBeans(addLoc, Val(beans)))

\* the servers the last event reported: serverAdded, or the answer to the
\* initial getServerHandles
JustReported ==
    IF lastOp.op = "insertServer" THEN {lastOp.id}
    ELSE IF lastOp.op = "getServerHandles"
         THEN {lastOp.arg[i].id : i \in 1..Len(lastOp.arg)}
         ELSE {}

\* the name prompt resolves: to undefined when cancelled, else to a value
\* validateInput has let through; the Registry and the servers just reported
\* at that moment are kept with the run
ShowInputBoxThen ==
    /\ addLoc.pc = "showInputBox"
    /\ \E value \in {Undefined} \cup {Val(n) : n \in {m \in Names : validateInput(This, m) = Null}} :
          AddLocationStep([ThenValue(addLoc, value) EXCEPT
                              !.accepted = [registry |-> {id \in Ids : Registered(id)},
                                            reported |-> JustReported]])

CreateServerAsyncThen ==
    /\ addLoc.pc = "createServerAsync"
    /\ \E status \in Statuses : AddLocationStep(ThenStatus(addLoc, status))

AddLocationNext ==
    \/ GetServerHandlesThen
    \/ InsertServer
    \/ UpdateServer
    \/ RemoveServer
    \/ AddLocation
    \/ ShowOpenDialogThen
    \/ FindServerBeansThen
    \/ ShowInputBoxThen
    \/ CreateServerAsyncThen

AddLocationSpec == Init /\ [][AddLocationNext]_vars

----------------------------------------------------------------------------
(* Properties *)

\* the steps that are a call of op
IsCall(op) == lastOp'.op = op

\* C1: last write wins. The state stored for id is exactly the last update
\* received for id since id's last removal (in the handle-tracking variant:
\* the last one that arrived while id's handle was registered), as a whole,
\* and id has at most one entry; an update for one id leaves the entries of
\* the others as they were.
C1_LastWriteWins ==
    \A id \in Ids :
        /\ MapGet(serverStatus, id) = received[id]
        /\ Cardinality({i \in 1..Len(serverStatus) : serverStatus[i].key = id}) <= 1

\* an update has replaced, in place, an entry older than the other id's entry
C1_Witness ==
    /\ lastOp.op = "updateServer"
    /\ lastOp.error = "none"
    /\ Len(serverStatus) = 2
    /\ serverStatus[1].key = lastOp.id
    /\ serverStatus[1].value = lastOp.arg
    /\ serverStatus[2].value.state # lastOp.arg.state

\* C2: in the handle-tracking variant an update for an id with no registered
\* handle is silently ignored: no error, and servers, serverStatus and
\* serverOutputChannels stay as they were.
C2_UnregisteredUpdateIgnored ==
    [][ (variant = "handle" /\ IsCall("updateServer") /\ ~lastOp'.registered)
          => /\ lastOp'.error = "none"
             /\ servers' = servers
             /\ serverStatus' = serverStatus
             /\ serverOutputChannels' = serverOutputChannels ]_vars

\* C3: removeServer leaves no handle and no state for the id, so the roots
\* hold no node for it; it raises no error, and when the id is in none of
\* the maps it leaves the three maps exactly as they were.
C3_RemoveServer ==
    [][ IsCall("removeServer")
          => LET id == lastOp'.id
             IN  /\ lastOp'.error = "none"
                 /\ ~MapHas(servers', id)
                 /\ ~MapHas(serverStatus', id)
                 /\ id \notin RootIds(servers', serverStatus')
                 /\ (~MapHas(servers, id) /\ ~MapHas(serverStatus, id)
                        /\ ~MapHas(serverOutputChannels, id))
                      => /\ servers' = servers
                         /\ serverStatus' = serverStatus
                         /\ serverOutputChannels' = serverOutputChannels ]_vars

\* a second removal of an id that was registered once, found in no map,
\* while the other id has an entry and a channel
C3_Witness ==
    /\ lastOp.op = "removeServer"
    /\ lastOp.id \in everRegistered
    /\ ~lastOp.registered
    /\ ~lastOp.hadChannel
    /\ Len(getRoots(servers, serverStatus)) = 1
    /\ Len(serverOutputChannels) = 1

\* C4: in the state-only variant, removeServer(id) directly followed by
\* updateServer(e) for the same id leaves the entry of id equal to e alone,
\* and no output channel (so no text buffered before the removal) is
\* associated with id.
C4_FreshAfterRemoval ==
    [][ (variant = "state" /\ lastOp.op = "removeServer"
           /\ IsCall("updateServer") /\ lastOp'.id = lastOp.id)
          => LET id == lastOp.id
             IN  /\ MapGet(serverStatus', id) = lastOp'.arg
                 /\ ~MapHas(serverOutputChannels', id)
                 /\ \A k \in 1..Len(outputChannels'[id]) :
                        /\ outputChannels'[id][k].disposed
                        /\ outputChannels'[id][k].text = "" ]_vars

\* an update has made a new entry for an id that was registered and had a
\* channel before, both gone by removal
C4_Witness ==
    /\ variant = "state"
    /\ lastOp.op = "updateServer"
    /\ ~lastOp.registered
    /\ lastOp.id \in everRegistered
    /\ ~lastOp.hadChannel
    /\ Len(outputChannels[lastOp.id]) > 0
    /\ MapGet(serverStatus, lastOp.id) = lastOp.arg

\* C5: every call of insertServer, updateServer and removeServer fires exactly
\* one change notification: updateServer with the affected server's entity
\* (the registered handle, or the new ServerState in the state-only variant),
\* insertServer and removeServer with no argument.
C5_OneNotificationPerCall ==
    /\ lastOp.op = "updateServer"
         => /\ Len(lastOp.fired) = 1
            /\ lastOp.fired[1].data = IF variant = "handle"
                                      THEN MapGet(servers, lastOp.id)
                                      ELSE lastOp.arg
    /\ lastOp.op \in {"insertServer", "removeServer"}
         => /\ Len(lastOp.fired) = 1
            /\ lastOp.fired[1].data = Undefined
    /\ lastOp.op = "getServerHandles"
         => /\ Len(lastOp.fired) = lastOp.calls
            /\ \A k \in 1..Len(lastOp.fired) : lastOp.fired[k].data = Undefined

\* C6: a render query never observes a partially applied mutation. Between
\* calls every stored entry is one whole update event; a listener that queries
\* from inside a notification sees, for every id, the entry as it was before
\* the call or as the call leaves it; and the notification of an update or
\* removal comes after the write it announces.
C6_NoPartialUpdate ==
    [][ /\ \A id \in Ids : MapGet(serverStatus', id) \in Events \cup {Undefined}
        /\ \A k \in 1..Len(lastOp'.fired) :
             LET seen == lastOp'.fired[k]
             IN  /\ \A id \in Ids :
                      /\ MapGet(seen.serverStatus, id)
                           \in {MapGet(serverStatus, id), MapGet(serverStatus', id)}
                      /\ MapGet(seen.servers, id)
                           \in {MapGet(servers, id), MapGet(servers', id)}
                 /\ IsCall("updateServer")
                      => MapGet(seen.serverStatus, lastOp'.id) = lastOp'.arg
                 /\ IsCall("removeServer")
                      => /\ ~MapHas(seen.servers, lastOp'.id)
                         /\ ~MapHas(seen.serverStatus, lastOp'.id) ]_vars

\* the listener of an update that replaced an older entry in place sees the
\* new event, before the channel is cleared
C6_Witness ==
    /\ lastOp.op = "updateServer"
    /\ Len(lastOp.fired) = 1
    /\ Len(serverStatus) = 2
    /\ serverStatus[1].key = lastOp.id
    /\ MapGet(lastOp.fired[1].serverStatus, lastOp.id) = lastOp.arg
    /\ lastOp.arg.state = STARTING
    /\ Len(lastOp.channelCalls) = 1
    /\ lastOp.channelCalls[1].nonEmpty

\* the channel objects of id that are not disposed
Live(chs, id) == {k \in 1..Len(chs[id]) : ~chs[id][k].disposed}

\* C7: every id has at most one live output channel, the one mapped for it;
\* its content is the concatenation, in arrival order, of the texts received
\* for the id since the channel was created or last cleared, whatever output
\* other ids receive; and a channel is created only by an addServerOutput for
\* an id that has none.
C7_ChannelContent ==
    [][ /\ \A id \in Ids :
             /\ Cardinality(Live(outputChannels', id)) <= 1
             /\ IF MapHas(serverOutputChannels', id)
                THEN LET channel == MapGet(serverOutputChannels', id)
                     IN  /\ channel.id = id
                         /\ Live(outputChannels', id) = {channel.n}
                         /\ outputChannels'[id][channel.n].text = sinceClear'[id]
                ELSE /\ Live(outputChannels', id) = {}
                     /\ sinceClear'[id] = ""
        /\ \A id \in Ids :
             Len(outputChannels'[id]) # Len(outputChannels[id])
               => /\ IsCall("addServerOutput")
                  /\ lastOp'.id = id
                  /\ ~MapHas(serverOutputChannels, id)
                  /\ Len(outputChannels'[id]) = Len(outputChannels[id]) + 1 ]_vars

\* "a" then "b" for one id gave "ab", while the other id has a channel too
C7_Witness ==
    /\ lastOp.op = "addServerOutput"
    /\ lastOp.arg = "b"
    /\ lastOp.hadChannel
    /\ Len(serverOutputChannels) = 2
    /\ LET channel == MapGet(serverOutputChannels, lastOp.id)
       IN  outputChannels[channel.id][channel.n].text = "ab"

\* C8: an applied update that reports Starting for an id with a channel
\* empties the channel, which stays mapped and undisposed; an update with
\* another run-state leaves every channel's content as it was; no update
\* creates a channel or changes serverOutputChannels.
C8_ClearOnRestart ==
    [][ IsCall("updateServer")
          => LET id == lastOp'.id
                 channel == MapGet(serverOutputChannels, id)
             IN  /\ serverOutputChannels' = serverOutputChannels
                 /\ \A i \in Ids : Len(outputChannels'[i]) = Len(outputChannels[i])
                 /\ IF lastOp'.error = "none" /\ lastOp'.arg.state = STARTING
                       /\ channel # Undefined
                    THEN /\ outputChannels' =
                              [outputChannels EXCEPT ![id][channel.n].text = ""]
                         /\ ~outputChannels'[id][channel.n].disposed
                    ELSE outputChannels' = outputChannels ]_vars

\* a Starting update has emptied a channel that held text
C8_Witness ==
    /\ lastOp.op = "updateServer"
    /\ lastOp.arg.state = STARTING
    /\ Len(lastOp.channelCalls) = 1
    /\ lastOp.channelCalls[1].method = "clear"
    /\ lastOp.channelCalls[1].nonEmpty
    /\ MapHas(serverOutputChannels, lastOp.id)
    /\ LET channel == MapGet(serverOutputChannels, lastOp.id)
       IN  outputChannels[channel.id][channel.n].text = ""

\* C9: removeServer clears and disposes the channel of the id and removes its
\* map entry, and touches no channel when the id has none; no disposed channel
\* is mapped, changed or called afterwards; the next addServerOutput for the
\* id creates a new channel that holds exactly the text of that output.
C9_ReleaseOnRemoval ==
    [][ /\ \A id \in Ids :
             MapHas(serverOutputChannels', id)
               => LET channel == MapGet(serverOutputChannels', id)
                  IN  ~outputChannels'[channel.id][channel.n].disposed
        /\ \A k \in 1..Len(lastOp'.channelCalls) : ~lastOp'.channelCalls[k].disposed
        /\ \A id \in Ids : \A k \in 1..Len(outputChannels[id]) :
             outputChannels[id][k].disposed
               => outputChannels'[id][k] = outputChannels[id][k]
        /\ IsCall("removeServer")
             => LET id == lastOp'.id
                    channel == MapGet(serverOutputChannels, id)
                IN  /\ ~MapHas(serverOutputChannels', id)
                    /\ IF channel # Undefined
                       THEN /\ outputChannels' =
                                 [outputChannels EXCEPT
                                    ![id][channel.n].text = "",
                                    ![id][channel.n].disposed = TRUE]
                            /\ Len(lastOp'.channelCalls) = 2
                            /\ lastOp'.channelCalls[1].method = "clear"
                            /\ lastOp'.channelCalls[2].method = "dispose"
                       ELSE /\ outputChannels' = outputChannels
                            /\ serverOutputChannels' = serverOutputChannels
                            /\ lastOp'.channelCalls = <<>>
        /\ (IsCall("addServerOutput") /\ ~MapHas(serverOutputChannels, lastOp'.id))
             => LET id == lastOp'.id
                    channel == MapGet(serverOutputChannels', id)
                IN  /\ channel = [id |-> id, n |-> Len(outputChannels[id]) + 1]
                    /\ Len(outputChannels'[id]) = channel.n
                    /\ outputChannels'[id][channel.n] =
                         [name |-> "Server: " \o id, text |-> lastOp'.arg,
                          disposed |-> FALSE] ]_vars

\* after a removal that disposed the first channel of an id, an output has
\* made a second one, which holds that output alone
C9_Witness ==
    /\ lastOp.op = "addServerOutput"
    /\ ~lastOp.hadChannel
    /\ Len(outputChannels[lastOp.id]) = 2
    /\ outputChannels[lastOp.id][1].disposed
    /\ outputChannels[lastOp.id][2].text = lastOp.arg
    /\ MapGet(serverOutputChannels, lastOp.id) = [id |-> lastOp.id, n |-> 2]

\* the three maps and the host's channels are as they were
ChannelsUnchanged ==
    /\ serverOutputChannels' = serverOutputChannels
    /\ outputChannels' = outputChannels

\* C10 as claimed: addServerOutput and showOutput for an id that was never
\* registered raise no error, create no channel and leave servers,
\* serverStatus and serverOutputChannels as they were; showOutput for an id
\* without a channel creates none.
C10_UnregisteredChannelOpsNoOp ==
    [][ /\ ((IsCall("addServerOutput") \/ IsCall("showOutput"))
             /\ lastOp'.id \notin everRegistered)
            => /\ lastOp'.error = "none"
               /\ servers' = servers
               /\ serverStatus' = serverStatus
               /\ ChannelsUnchanged
        /\ (IsCall("showOutput") /\ ~MapHas(serverOutputChannels, lastOp'.id))
            => ChannelsUnchanged ]_vars

\* C10 as amended: addServerOutput and showOutput for an id that was never
\* registered raise no error and leave servers and serverStatus as they were;
\* showOutput creates no channel and leaves serverOutputChannels as it was,
\* for such an id and for any id without a channel; addServerOutput for such
\* an id creates the id's channel when it has none and appends the text.
C10_UnregisteredChannelOps ==
    [][ /\ ((IsCall("addServerOutput") \/ IsCall("showOutput"))
             /\ lastOp'.id \notin everRegistered)
            => /\ lastOp'.error = "none"
               /\ servers' = servers
               /\ serverStatus' = serverStatus
        /\ (IsCall("showOutput")
             /\ (lastOp'.id \notin everRegistered
                   \/ ~MapHas(serverOutputChannels, lastOp'.id)))
            => ChannelsUnchanged
        /\ (IsCall("addServerOutput") /\ lastOp'.id \notin everRegistered)
            => LET id == lastOp'.id
                   old == MapGet(serverOutputChannels, id)
                   channel == MapGet(serverOutputChannels', id)
               IN  /\ channel # Undefined
                   /\ IF old = Undefined
                      THEN /\ Len(outputChannels'[id]) = Len(outputChannels[id]) + 1
                           /\ channel.n = Len(outputChannels'[id])
                           /\ outputChannels'[id][channel.n].text = lastOp'.arg
                      ELSE /\ channel = old
                           /\ outputChannels'[id][channel.n].text =
                                outputChannels[id][channel.n].text \o lastOp'.arg ]_vars

\* output for an id never registered has made a channel, while the other id
\* has a stored state
C10_Witness ==
    /\ lastOp.op = "addServerOutput"
    /\ lastOp.id \notin everRegistered
    /\ ~lastOp.hadChannel
    /\ MapHas(serverOutputChannels, lastOp.id)
    /\ Len(serverStatus) = 1

\* the identifiers in the Registry: of the handles in the handle-tracking
\* variant, of the states in the state-only variant
RegistryIds == IF variant = "handle" THEN MapKeys(servers) ELSE MapKeys(serverStatus)

\* getChildren(undefined) returns one node per identifier in the Registry
RootsMirrorRegistry ==
    LET roots == getChildren(This, Undefined).value
    IN  /\ getChildren(This, Undefined).returned
        /\ {nodeId(roots[i]) : i \in 1..Len(roots)} = RegistryIds
        /\ \A i, j \in 1..Len(roots) : nodeId(roots[i]) = nodeId(roots[j]) => i = j

\* the servers the last call reported (serverAdded, or the answer to the
\* initial getServerHandles) are among the roots
ReportedAmongRoots ==
    /\ lastOp.op = "insertServer" => lastOp.id \in RootIds(servers, serverStatus)
    /\ lastOp.op = "getServerHandles" =>
           \A i \in 1..Len(lastOp.arg) : lastOp.arg[i].id \in RootIds(servers, serverStatus)

\* a root stays a root in every step but the removal of its server
RootUntilRemoved ==
    \A id \in Ids :
        (id \in RootIds(servers, serverStatus) /\ ~(IsCall("removeServer") /\ lastOp'.id = id))
            => id \in RootIds(servers', serverStatus')

\* C14 as claimed: the roots mirror the Registry, one node per identifier, and
\* in both variants every server reported by serverAdded or by the initial
\* getServerHandles and not since removed is among the roots.
C14_ReportedAreRoots ==
    [](RootsMirrorRegistry /\ ReportedAmongRoots) /\ [][RootUntilRemoved]_vars

\* C14: the roots mirror the Registry, one node per identifier. In the
\* handle-tracking variant every server reported by serverAdded or by the
\* initial getServerHandles and not since removed is among the roots; in the
\* state-only variant a server is among the roots from the first state update
\* applied for it until its removal, whether it was reported or not.
C14_RootsMirrorRegistry ==
    /\ [](/\ RootsMirrorRegistry
          /\ variant = "handle" => ReportedAmongRoots
          /\ (variant = "state" /\ lastOp.op = "updateServer") =>
                 lastOp.id \in RootIds(servers, serverStatus))
    /\ [][RootUntilRemoved]_vars

\* the initial list reported s1 and s2, s2 has been removed since, and s1 is
\* the only root
C14_Witness ==
    /\ variant = "handle"
    /\ handlesRequest = "done"
    /\ everRegistered = {"s1", "s2"}
    /\ lastOp.op = "removeServer"
    /\ lastOp.id = "s2"
    /\ lastOp.registered
    /\ RootIds(servers, serverStatus) = {"s1"}
    /\ Len(getChildren(This, Undefined).value) = 1

\* the number of entries the map holds under the key
Entries(m, k) == Cardinality({i \in 1..Len(m) : m[i].key = k})

\* C15: insertServer is idempotent by identifier. A call leaves serverStatus,
\* serverOutputChannels and the host's channels as they were, for the id and
\* for every other id; in the handle-tracking variant the Registry then has
\* exactly one entry for the id, and a call for an id already registered
\* leaves servers as it was; every call fires one change notification, and it
\* carries no argument (the whole tree).
C15_InsertIdempotent ==
    [][IsCall("insertServer") =>
          /\ serverStatus' = serverStatus
          /\ ChannelsUnchanged
          /\ variant = "handle" =>
                 /\ Entries(servers', lastOp'.id) = 1
                 /\ MapGet(servers', lastOp'.id) = ServerHandle(lastOp'.id)
                 /\ MapHas(servers, lastOp'.id) => servers' = servers
                 /\ \A id \in Ids \ {lastOp'.id} : MapGet(servers', id) = MapGet(servers, id)
          /\ variant = "state" => servers' = servers
          /\ lastOp'.error = "none"
          /\ Len(lastOp'.fired) = 1
          /\ lastOp'.fired[1].data = Undefined]_vars

\* the handle-tracking provider is told again of s1, which is registered
\* behind s2 and has a stored state and an output channel
C15_Witness ==
    /\ variant = "handle"
    /\ lastOp.op = "insertServer"
    /\ lastOp.id = "s1"
    /\ lastOp.registered
    /\ lastOp.hadChannel
    /\ MapHas(serverStatus, "s1")
    /\ MapHas(serverOutputChannels, "s1")
    /\ Len(servers) = 2
    /\ servers[2].key = "s1"

\* C20: in the handle-tracking variant a removal is not undone by the answer
\* to the constructor's getServerHandles: once removeServer(id) has run, id
\* stays out of servers and out of the roots unless serverAdded(id) arrives.
\* Stated for the step that follows the removal, the first of the later
\* states.
C20_RemovalIsFinal ==
    [][(/\ variant = "handle"
        /\ lastOp.op = "removeServer"
        /\ ~(IsCall("insertServer") /\ lastOp'.id = lastOp.id)) =>
            /\ ~MapHas(servers', lastOp.id)
            /\ lastOp.id \notin RootIds(servers', serverStatus')]_vars

\* C21: in the handle-tracking variant the ids with a stored ServerState are
\* always among the ids with a registered ServerHandle: updateServer stores
\* nothing for an id without a handle, and removeServer takes handle and state
\* of its id away together.
C21_NoOrphanState ==
    /\ [](variant = "handle" => MapKeys(serverStatus) \subseteq MapKeys(servers))
    /\ [][(variant = "handle" /\ IsCall("updateServer") /\ ~MapHas(servers, lastOp'.id)) =>
             serverStatus' = serverStatus]_vars
    /\ [][(variant = "handle" /\ IsCall("removeServer")) =>
             /\ ~MapHas(servers', lastOp'.id)
             /\ ~MapHas(serverStatus', lastOp'.id)]_vars

\* s2 was registered once and is removed, an update for it has just been
\* turned away, and s1 has its handle and a stored state
C21_Witness ==
    /\ variant = "handle"
    /\ everRegistered = {"s1", "s2"}
    /\ lastOp.op = "updateServer"
    /\ lastOp.id = "s2"
    /\ ~lastOp.registered
    /\ MapKeys(servers) = {"s1"}
    /\ MapKeys(serverStatus) = {"s1"}

----------------------------------------------------------------------------
(* Properties of the tree view *)

\* the label the run-state table gives a run-state code
RunStateLabel(code) ==
    CASE code = 0 -> "Unknown"
      [] code = 1 -> "Starting"
      [] code = 2 -> "Started"
      [] code = 3 -> "Stopping"
      [] code = 4 -> "Stopped"

\* the run-state code the Registry holds for id now, Unknown when it holds none
CurrentRunState(id) ==
    IF MapHas(serverStatus, id) THEN MapGet(serverStatus, id).state ELSE UNKNOWN

IsQuery(op) == render.op = op

IsServerNode(node) ==
    IF variant = "handle" THEN Has(node, "id") ELSE Has(node, "deployableStates")

IsDeployableNode(node) == Has(node, "reference")

SeqToSet(q) == {q[i] : i \in 1..Len(q)}

\* the node is in the tree now: a root, or a child getChildren returns for a root
Displayed(node) ==
    LET roots == SeqToSet(getChildren(This, Undefined).value)
    IN  \/ node \in roots
        \/ \E root \in roots :
               /\ getChildren(This, root).returned
               /\ node \in SeqToSet(getChildren(This, root).value)

\* C11: getTreeItem of a server node for id returns the label "id:T(L)" and
\* the context tag L, where T is the visible type name of the handle and L is
\* the run-state label of the state the Registry stores for id now ("Unknown"
\* when it stores none), whatever state the node handed in carries.
C11_ServerLabel ==
    (IsQuery("getTreeItem") /\ IsServerNode(render.node)) =>
        LET id == nodeId(render.node)
            L == RunStateLabel(CurrentRunState(id))
        IN  /\ render.result.returned
            /\ render.result.value.label = id \o ":" \o visibleName(id) \o "(" \o L \o ")"
            /\ Has(render.result.value, "contextValue")
            /\ render.result.value.contextValue = L

\* the state-only provider is handed a snapshot of s1 that is older than the
\* state it stores, and labels the node with the stored state
C11_Witness ==
    /\ variant = "state"
    /\ IsQuery("getTreeItem")
    /\ IsServerNode(render.node)
    /\ render.node.server.id = "s1"
    /\ render.node.state = STARTED
    /\ CurrentRunState("s1") = STOPPING
    /\ render.result.value.label = "s1:Tomcat(Stopping)"

\* C12: getTreeItem of a deployable node with publish state p in 1..6 (state-only
\* variant) returns a label that combines the deployable's reference with the
\* raw code p, so deployables with different references are labelled apart,
\* and a context tag that is present, a label string of the run-state table,
\* the one at index p.
C12_DeployableLabel ==
    (/\ IsQuery("getTreeItem")
     /\ Displayed(render.node)
     /\ IsDeployableNode(render.node)
     /\ render.node.state \in 1..6) =>
        /\ render.result.returned
        /\ Has(render.result.value, "contextValue")
        /\ render.node.state \in RunStates =>
               render.result.value.contextValue = RunStateLabel(render.node.state)
        /\ \A other \in Deployables :
               (other.state = render.node.state /\ other.reference # render.node.reference) =>
                   getTreeItem(This, other).value.label # render.result.value.label

\* the deployables a server node stands for: in the handle-tracking variant
\* those of the state stored for the handle, in the state-only variant those
\* the node carries
ChildrenOf(node) ==
    IF variant = "state" THEN node.deployableStates
    ELSE IF MapHas(serverStatus, node.id) THEN MapGet(serverStatus, node.id).deployableStates
         ELSE <<>>

\* C13: getChildren of a node of the tree always returns a sequence, never
\* undefined: for a server node its DeployableState children in their original order (the
\* empty sequence when it has none), for a deployable node the empty sequence.
C13_ChildrenAreSequences ==
    (IsQuery("getChildren") /\ render.node # Undefined /\ Displayed(render.node)) =>
        /\ render.result.returned
        /\ IsServerNode(render.node) => render.result.value = ChildrenOf(render.node)
        /\ IsDeployableNode(render.node) => render.result.value = <<>>

----------------------------------------------------------------------------
(* Properties of addLocation() *)

Started == addLoc.pc # "idle"

\* the createServerAsync requests of the run
Creates == SelectSeq(addLoc.calls, LAMBDA c : c.op = "createServerAsync")

\* the stage has produced a value, and it is not undefined
Given(x) == x \notin {NotYet, Undefined}

\* the bean has a category, and it is not UNKNOWN
KnownCategory(bean) ==
    Has(bean, "typeCategory") /\ bean.typeCategory \notin {"", "UNKNOWN"}

\* the name is empty or made of whitespace only
Blank(name) == \A i \in 1..Len(name) : name[i] \in Whitespace

CompletedWithNothing ==
    addLoc.pc = "done" /\ addLoc.outcome = [state |-> "fulfilled", value |-> Undefined]

CannotDetect ==
    /\ addLoc.pc = "done"
    /\ addLoc.outcome = [state |-> "rejected",
                         reason |-> "Cannot detect server in selected location!"]

\* C16: a run of addLocation calls createServerAsync at most once, and only
\* after exactly one folder was selected, findServerBeans returned a list
\* whose first bean has a known category, and a non-empty name was entered,
\* with that bean and that name; a cancelled folder dialog makes no call to
\* the control service, a cancelled name prompt no createServerAsync call, and
\* both end the run with no result and no error.
C16_NoPartialSideEffects ==
    Started =>
        /\ Len(Creates) <= 1
        /\ Creates # <<>> =>
               /\ Given(addLoc.folders) /\ Len(addLoc.folders.value) = 1
               /\ Given(addLoc.serverBeans) /\ Len(addLoc.serverBeans.value) > 0
               /\ KnownCategory(addLoc.serverBeans.value[1])
               /\ Given(addLoc.value) /\ addLoc.value.value # <<>>
               /\ Creates[1].bean = addLoc.serverBeans.value[1]
               /\ Creates[1].name = Str(addLoc.value.value)
        /\ addLoc.folders = Undefined => addLoc.calls = <<>> /\ CompletedWithNothing
        /\ addLoc.value = Undefined => Creates = <<>> /\ CompletedWithNothing

\* one folder, a detected server and the name "s3" led to the run's only
\* createServerAsync request, which is still pending
C16_Witness ==
    /\ Started
    /\ addLoc.pc = "createServerAsync"
    /\ addLoc.folders = Val(<<Uri("/opt/tomcat")>>)
    /\ addLoc.serverBeans = Val(<<KnownBean, UnknownBean>>)
    /\ addLoc.value = Val(<<"s", "3">>)
    /\ addLoc.calls = << [op |-> "findServerBeans", path |-> "/opt/tomcat"],
                         [op |-> "createServerAsync", bean |-> KnownBean, name |-> "s3"] >>
    /\ addLoc.outcome = Pending

ValidatorRejects ==
    \A name \in Names :
        (Blank(name) \/ Str(name) \in RegistryIds) => validateInput(This, name) # Null

\* C18 as claimed: the validator rejects blank names and the identifiers in
\* the Registry, so createServerAsync is never called with a blank name nor
\* with the identifier of a server that was known when the name was accepted,
\* be it in the Registry or just reported by serverAdded or getServerHandles.
C18_NoNameOfKnownServer ==
    /\ ValidatorRejects
    /\ (Started /\ Creates # <<>>) =>
           /\ ~Blank(addLoc.value.value)
           /\ Creates[1].name \notin addLoc.accepted.registry \cup addLoc.accepted.reported

\* C18: the validator rejects blank names and the identifiers in the Registry
\* (servers in the handle-tracking variant, serverStatus in the state-only
\* variant), so createServerAsync is never called with a blank name nor with
\* an identifier that was in the Registry when the name was accepted; in the
\* handle-tracking variant that covers every server just reported.
C18_NameValidation ==
    /\ ValidatorRejects
    /\ (Started /\ Creates # <<>>) =>
           /\ ~Blank(addLoc.value.value)
           /\ Creates[1].name \notin addLoc.accepted.registry
           /\ variant = "handle" => Creates[1].name \notin addLoc.accepted.reported

\* the name "s2" was accepted and sent while "s1" was in the Registry
C18_Witness ==
    /\ Started
    /\ Creates # <<>>
    /\ Creates[1].name = "s2"
    /\ addLoc.accepted.registry = {"s1"}
    /\ validateInput(This, <<"s", "1">>) = Message("Cannot set duplicate server name")
    /\ validateInput(This, <<" ", "\t">>) = Message("Cannot set empty server name")

\* C19: when createServerAsync answers with a severity above 0 the run fails
\* with that status's message, when it answers with severity 0 the run
\* succeeds with that status; no step of addLocation changes servers,
\* serverStatus or serverOutputChannels.
C19_CreationResult ==
    /\ []((Started /\ Given(addLoc.status)) =>
             /\ addLoc.pc = "done"
             /\ addLoc.status.severity > 0 =>
                    addLoc.outcome = [state |-> "rejected", reason |-> addLoc.status.message]
             /\ addLoc.status.severity = 0 =>
                    addLoc.outcome = [state |-> "fulfilled", value |-> addLoc.status])
    /\ [][addLoc' # addLoc =>
             /\ servers' = servers
             /\ serverStatus' = serverStatus
             /\ serverOutputChannels' = serverOutputChannels]_vars

\* the control service turned the request down, with servers in the Registry
C19_Witness ==
    /\ Started
    /\ addLoc.status = [severity |-> 4, message |-> "server name in use"]
    /\ addLoc.outcome = [state |-> "rejected", reason |-> "server name in use"]
    /\ RegistryIds = {"s1", "s2"}
====
